---- MODULE Spec2Model ----
(***************************************************************************)
(* Model of rybla/ulc_in_rust: the untyped lambda calculus evaluator of    *)
(* src/ulc (terms, term builders and their name resolution, closures,      *)
(* environments, interpret/apply).  src/fi_lang holds the same Env,        *)
(* interpret and apply with `Let` in the place of `Def`.                   *)
(***************************************************************************)
EXTENDS Integers, Sequences, FiniteSets, TLC

VARIABLES
    pc,         \* what has been called so far
    builder,    \* the TermBuilder handed to Term::from
    term,       \* the Term handed to interpret
    env,        \* the Env handed to interpret, lookup or extend
    extended,   \* the Env that extend returned
    name,       \* the NameRef handed to lookup, or the NameIntro to extend
    callee,     \* the Val handed to apply
    vals,       \* the Vals handed to apply or extend so far
    result      \* what the last call returned

vars == <<pc, builder, term, env, extended, name, callee, vals, result>>

(***************************************************************************)
(* Bounds of the model.                                                    *)
(***************************************************************************)
\* nodes of a surface term whose use occurrences carry no index
MaxSize == 5
\* nodes of a surface term whose use occurrences may carry an explicit index
MaxIndexedSize == 3
\* nodes of a hand-built core term
MaxCoreSize == 3
\* largest index of a hand-built NameRef / of an explicit index
MaxIndex == 1
\* bindings of the environment a hand-built core term is interpreted in
MaxEnvLen == 1
\* bindings of the environment handed to lookup and extend
MaxLookupEnvLen == 2
\* largest index of a NameRef handed to lookup
MaxLookupIndex == 5
\* argument values handed to apply
MaxArgs == 3
\* nested calls of interpret/apply the host stack holds
MaxStack == 8

Labels == {"x", "y"}

(***************************************************************************)
(* Result<T, String> and Option<usize>.  An error String is modelled by    *)
(* the format template that produced it (kind) and the values formatted    *)
(* into it.                                                                *)
(***************************************************************************)
Ok(v) == <<"Ok", v>>
Err(e) == <<"Err", e>>
IsOk(r) == r[1] = "Ok"
IsErr(r) == r[1] = "Err"
None == <<>>
Some(k) == <<k>>

\* a call chain deeper than the host stack ends the process
StackOverflow == <<"Abort", "stack overflow">>
\* Result::unwrap on an Err ends the thread
Panic(e) == <<"Panic", e>>
NoResult == <<"None">>

(***************************************************************************)
(* NameIntro, NameRef, Term, Val                                           *)
(***************************************************************************)
NameIntro_new(label) == [label |-> label]
NameRef_new(label, index) == [label |-> label, index |-> index]

Term_lam(intro, body) == [tag |-> "Lam", intro |-> intro, body |-> body]
Term_neu(applicant, arguments) ==
    [tag |-> "Neu", applicant |-> applicant, arguments |-> arguments]
Term_var(n) == [tag |-> "Neu", applicant |-> n, arguments |-> <<>>]
Term_def(intro, binding, body) ==
    [tag |-> "Def", intro |-> intro, binding |-> binding, body |-> body]

Val_lam(closure, intro, body) ==
    [intro |-> intro, body |-> body, closure |-> closure]

(***************************************************************************)
(* TermBuilder and the term_builder constructors                           *)
(***************************************************************************)
term_builder_lam(n, body) == [tag |-> "Lam", name |-> n, body |-> body]
term_builder_neu(applicant, arguments) ==
    [tag |-> "Neu", applicant |-> <<applicant, None>>, arguments |-> arguments]
term_builder_neu_with_index(applicant, index, arguments) ==
    [tag |-> "Neu", applicant |-> <<applicant, Some(index)>>,
     arguments |-> arguments]
term_builder_var(n) == term_builder_neu(n, <<>>)
term_builder_var_with_index(n, index) == term_builder_neu_with_index(n, index, <<>>)
term_builder_def(n, binding, body) ==
    [tag |-> "Def", name |-> n, binding |-> binding, body |-> body]

(***************************************************************************)
(* Env: bindings, most recently bound first (TLA+ position i+1 is the      *)
(* Vec's index i).                                                         *)
(***************************************************************************)
Env_default == <<>>

\* faulty variant of Env_extend: the binding is pushed at the far end
Env_extend_at_end(e, intro, val) == Append(e, <<intro, val>>)

Env_extend(e, intro, val) == <<<<intro, val>>>> \o e

\* faulty variant of Env_lookup: the binding at the index is returned without
\* comparing its label
Env_lookup_unchecked(e, x) ==
    IF x.index < Len(e)
    THEN Ok(e[x.index + 1][2])
    ELSE Err([kind |-> "UnboundReference", index |-> x.index,
              label |-> x.label])

Env_lookup(e, x) ==
    IF x.index < Len(e)
    THEN LET y == e[x.index + 1][1]
             v == e[x.index + 1][2]
         IN IF y.label = x.label
            THEN Ok(v)
            ELSE Err([kind |-> "NameMismatch", index |-> x.index,
                      label |-> x.label, actual |-> y.label])
    ELSE Err([kind |-> "UnboundReference", index |-> x.index,
              label |-> x.label])

\* faulty variant of Env_iter: the bindings from the far end, oldest first
Env_iter_oldest_first(e) == [i \in 1..Len(e) |-> e[Len(e) + 1 - i]]

\* self.bindings.iter(): the items in the order the iterator yields them
Env_iter(e) == e

(***************************************************************************)
(* Name resolution: from_term_builder_to_term                              *)
(***************************************************************************)
\* ctx.get(index)
Vec_get(v, index) == IF index < Len(v) THEN Some(v[index + 1]) ELSE None

\* faulty variant of Vec_position: the position of the last match, not the first
Vec_position_last(v, n) ==
    IF \E i \in 1..Len(v) : v[i] = n
    THEN Some((CHOOSE i \in 1..Len(v) :
                  v[i] = n /\ \A j \in (i + 1)..Len(v) : v[j] # n) - 1)
    ELSE None

\* faulty variant of Vec_position: positions counted from 1
Vec_position_from_one(v, n) ==
    IF \E i \in 1..Len(v) : v[i] = n
    THEN Some(CHOOSE i \in 1..Len(v) :
                  v[i] = n /\ \A j \in 1..(i - 1) : v[j] # n)
    ELSE None

\* ctx.iter().position(|name_actual| name == name_actual)
Vec_position(v, n) ==
    IF \E i \in 1..Len(v) : v[i] = n
    THEN Some((CHOOSE i \in 1..Len(v) :
                  v[i] = n /\ \A j \in 1..(i - 1) : v[j] # n) - 1)
    ELSE None

\* faulty variant of Ctx_insert: the name pushed at the far end of the context
Ctx_insert_at_end(ctx, n) == Append(ctx, n)

\* ctx.clone() with ctx.insert(0, name)
Ctx_insert(ctx, n) == <<n>> \o ctx

\* faulty variant of resolve_applicant: an explicit index is accepted when the
\* context has an entry there, whatever its label
resolve_applicant_unchecked(ctx, applicant) ==
    LET n == applicant[1]
        index == applicant[2]
    IN IF index # None
       THEN IF Vec_get(ctx, index[1]) = None
            THEN Err([kind |-> "InvalidNameRef", label |-> n,
                      index |-> index, ctx |-> ctx])
            ELSE Ok(NameRef_new(n, index[1]))
       ELSE LET found == Vec_position(ctx, n)
            IN IF found = None
               THEN Err([kind |-> "UnboundName", label |-> n,
                         index |-> None, ctx |-> ctx])
               ELSE Ok(NameRef_new(n, found[1]))

\* the `match index` of the Neu arm: the applicant's NameRef
resolve_applicant(ctx, applicant) ==
    LET n == applicant[1]
        index == applicant[2]
    IN IF index # None
       THEN LET name_actual == Vec_get(ctx, index[1])
            IN IF name_actual = None
               THEN Err([kind |-> "InvalidNameRef", label |-> n,
                         index |-> index, ctx |-> ctx])
               ELSE IF n # name_actual[1]
                    THEN Err([kind |-> "InvalidNameRef", label |-> n,
                              index |-> index, ctx |-> ctx])
                    ELSE Ok(NameRef_new(n, index[1]))
       ELSE LET found == Vec_position(ctx, n)
            IN IF found = None
               THEN Err([kind |-> "UnboundName", label |-> n,
                         index |-> None, ctx |-> ctx])
               ELSE Ok(NameRef_new(n, found[1]))

RECURSIVE from_term_builder_to_term(_, _)
RECURSIVE resolve_arguments(_, _, _, _)

\* arguments.iter().map(|arg| from_term_builder_to_term(ctx.clone(), arg))
\*     .collect::<Result<Vec<Term>, String>>(): left to right, stops at the
\* first Err
resolve_arguments(ctx, arguments, i, acc) ==
    IF i > Len(arguments)
    THEN Ok(acc)
    ELSE LET r == from_term_builder_to_term(ctx, arguments[i])
         IN IF IsOk(r)
            THEN resolve_arguments(ctx, arguments, i + 1, Append(acc, r[2]))
            ELSE r

\* faulty variant of resolve_neu: the arguments are resolved before the
\* applicant, as interpret evaluates them
resolve_neu_arguments_first(ctx, tb) ==
    LET arguments == resolve_arguments(ctx, tb.arguments, 1, <<>>)
    IN IF IsOk(arguments)
       THEN LET applicant == resolve_applicant(ctx, tb.applicant)
            IN IF IsOk(applicant)
               THEN Ok(Term_neu(applicant[2], arguments[2]))
               ELSE applicant
       ELSE arguments

\* the Neu arm of from_term_builder_to_term
resolve_neu(ctx, tb) ==
    LET applicant == resolve_applicant(ctx, tb.applicant)
    IN IF IsOk(applicant)
       THEN LET arguments == resolve_arguments(ctx, tb.arguments, 1, <<>>)
            IN IF IsOk(arguments)
               THEN Ok(Term_neu(applicant[2], arguments[2]))
               ELSE arguments
       ELSE applicant

from_term_builder_to_term(ctx, tb) ==
    CASE tb.tag = "Lam" ->
            LET body == from_term_builder_to_term(Ctx_insert(ctx, tb.name), tb.body)
            IN IF IsOk(body)
               THEN Ok(Term_lam(NameIntro_new(tb.name), body[2]))
               ELSE body
      [] tb.tag = "Neu" -> resolve_neu(ctx, tb)
      [] tb.tag = "Def" ->
            LET intro == NameIntro_new(tb.name)
                binding == from_term_builder_to_term(ctx, tb.binding)
            IN IF IsOk(binding)
               THEN LET body == from_term_builder_to_term(
                                    Ctx_insert(ctx, tb.name), tb.body)
                    IN IF IsOk(body)
                       THEN Ok(Term_def(intro, binding[2], body[2]))
                       ELSE body
               ELSE binding

\* impl From<TermBuilder> for Term: resolution from the empty context, unwrapped
Term_from(tb) ==
    LET r == from_term_builder_to_term(<<>>, tb)
    IN IF IsOk(r) THEN r ELSE Panic(r[2])

(***************************************************************************)
(* Evaluation: interpret and apply.  d is the number of nested calls the   *)
(* host stack still holds; a call made with none left overflows the stack. *)
(***************************************************************************)
RECURSIVE interpret(_, _, _)
RECURSIVE apply(_, _, _)
RECURSIVE interpret_arguments(_, _, _, _, _)
RECURSIVE apply_loop(_, _, _, _)

\* arguments.iter().map(|arg| Ok(Box::new(interpret(env, arg)?)))
\*     .collect::<Result<Vec<Box<Val>>, String>>(): left to right, stops at
\* the first Err
interpret_arguments(e, arguments, i, acc, d) ==
    IF i > Len(arguments)
    THEN Ok(acc)
    ELSE LET r == interpret(e, arguments[i], d)
         IN IF IsOk(r)
            THEN interpret_arguments(e, arguments, i + 1, Append(acc, r[2]), d)
            ELSE r

\* faulty variant of interpret_neu: the applicant is looked up before the arguments
\* are interpreted
interpret_neu_lookup_first(e, t, d) ==
    LET applicant == Env_lookup(e, t.applicant)
    IN IF IsOk(applicant)
       THEN LET arguments == interpret_arguments(e, t.arguments, 1, <<>>, d - 1)
            IN IF IsOk(arguments)
               THEN apply(applicant[2], arguments[2], d - 1)
               ELSE arguments
       ELSE applicant

\* the Neu arm of interpret
interpret_neu(e, t, d) ==
    LET arguments == interpret_arguments(e, t.arguments, 1, <<>>, d - 1)
    IN IF IsOk(arguments)
       THEN LET applicant == Env_lookup(e, t.applicant)
            IN IF IsOk(applicant)
               THEN apply(applicant[2], arguments[2], d - 1)
               ELSE applicant
       ELSE arguments

\* faulty variant of interpret_def: the body is interpreted in the environment
\* without the new binding
interpret_def_unextended(e, t, d) ==
    LET binding == interpret(e, t.binding, d - 1)
    IN IF IsOk(binding)
       THEN interpret(e, t.body, d - 1)
       ELSE binding

\* faulty variant of interpret_def: the term itself, not its body, is
\* interpreted under the new binding
interpret_def_reinterprets_term(e, t, d) ==
    LET binding == interpret(e, t.binding, d - 1)
    IN IF IsOk(binding)
       THEN interpret(Env_extend(e, t.intro, binding[2]), t, d - 1)
       ELSE binding

\* the Def arm of interpret
interpret_def(e, t, d) ==
    LET binding == interpret(e, t.binding, d - 1)
    IN IF IsOk(binding)
       THEN interpret(Env_extend(e, t.intro, binding[2]), t.body, d - 1)
       ELSE binding

\* faulty variant of interpret_lam: the closure captures the default environment
interpret_lam_default_env(e, t) == Ok(Val_lam(Env_default, t.intro, t.body))

\* the Lam arm of interpret
interpret_lam(e, t) == Ok(Val_lam(e, t.intro, t.body))

interpret(e, t, d) ==
    IF d = 0
    THEN StackOverflow
    ELSE CASE t.tag = "Lam" -> interpret_lam(e, t)
           [] t.tag = "Neu" -> interpret_neu(e, t, d)
           [] t.tag = "Def" -> interpret_def(e, t, d)

\* one turn of apply's `for argument in &arguments`
apply_step(applicant, argument, d) ==
    LET closure == Env_extend(applicant.closure, applicant.intro, argument)
    IN interpret(closure, applicant.body, d - 1)

apply_loop(applicant, arguments, i, d) ==
    IF i > Len(arguments)
    THEN Ok(applicant)
    ELSE LET r == apply_step(applicant, arguments[i], d)
         IN IF IsOk(r)
            THEN apply_loop(r[2], arguments, i + 1, d)
            ELSE r

\* faulty variant of apply: only the first argument is applied
apply_first_argument_only(applicant, arguments, d) ==
    IF d = 0
    THEN StackOverflow
    ELSE IF arguments = <<>>
         THEN Ok(applicant)
         ELSE apply_step(applicant, arguments[1], d)

apply(applicant, arguments, d) ==
    IF d = 0
    THEN StackOverflow
    ELSE apply_loop(applicant, arguments, 1, d)

(***************************************************************************)
(* Inputs: surface terms and hand-built core terms by number of nodes.     *)
(***************************************************************************)
RECURSIVE BuildersOfSize(_, _)
RECURSIVE BuilderArgs(_, _)

\* the argument vectors whose terms have m nodes in all
BuilderArgs(m, heads) ==
    IF m = 0
    THEN {<<>>}
    ELSE UNION { { <<t>> \o rest : t \in BuildersOfSize(k, heads),
                                   rest \in BuilderArgs(m - k, heads) }
                 : k \in 1..m }

\* the TermBuilders of n nodes whose applicants are drawn from heads
BuildersOfSize(n, heads) ==
    IF n = 1
    THEN { [tag |-> "Neu", applicant |-> h, arguments |-> <<>>] : h \in heads }
    ELSE { term_builder_lam(l, b) : l \in Labels, b \in BuildersOfSize(n - 1, heads) }
         \cup { [tag |-> "Neu", applicant |-> h, arguments |-> a]
                : h \in heads, a \in BuilderArgs(n - 1, heads) }
         \cup UNION { { term_builder_def(l, b1, b2)
                        : l \in Labels, b1 \in BuildersOfSize(k, heads),
                          b2 \in BuildersOfSize(n - 1 - k, heads) }
                      : k \in 1..(n - 2) }

\* the TermBuilders of at most n nodes
BuildersUpTo(n, heads) == UNION { BuildersOfSize(k, heads) : k \in 1..n }

PlainHeads == { <<l, None>> : l \in Labels }
IndexedHeads == PlainHeads \cup { <<l, Some(k)>> : l \in Labels, k \in 0..MaxIndex }

\* (def f = λx λy x in (f λz z)), the surface term of ulc test1
Test1Builder ==
    term_builder_def("f",
        term_builder_lam("x", term_builder_lam("y", term_builder_var("x"))),
        term_builder_neu("f", <<term_builder_lam("z", term_builder_var("z"))>>))

\* the surface terms of term_builder::tests::test_var
TestVarBuilders ==
    { term_builder_lam("x", term_builder_var("x")),
      term_builder_def("x", term_builder_lam("y", term_builder_var("y")),
                       term_builder_var("x")),
      term_builder_def("x", term_builder_lam("y", term_builder_var("y")),
                       term_builder_neu("x", <<term_builder_var("x")>>)) }

\* (def w = λx (x x) in (w w)): a closed term whose evaluation never returns
OmegaBuilder ==
    term_builder_def("w",
        term_builder_lam("x", term_builder_neu("x", <<term_builder_var("x")>>)),
        term_builder_neu("w", <<term_builder_var("w")>>))

\* (def k = λx λy x in (k k k)): both parameters of k are bound by the spine
KBuilder ==
    term_builder_def("k",
        term_builder_lam("x", term_builder_lam("y", term_builder_var("x"))),
        term_builder_neu("k", <<term_builder_var("k"), term_builder_var("k")>>))

\* the surface terms handed to Term::from
Builders(n, m) ==
    BuildersUpTo(n, PlainHeads)
    \cup BuildersUpTo(m, IndexedHeads)
    \cup TestVarBuilders \cup {Test1Builder, OmegaBuilder, KBuilder}

RECURSIVE TermsOfSize(_)
RECURSIVE TermArgs(_)

NameRefs == { NameRef_new(l, k) : l \in Labels, k \in 0..MaxIndex }

TermArgs(m) ==
    IF m = 0
    THEN {<<>>}
    ELSE UNION { { <<t>> \o rest : t \in TermsOfSize(k), rest \in TermArgs(m - k) }
                 : k \in 1..m }

\* the Terms of n nodes built directly with Term::lam, Term::neu, Term::var
\* and Term::def
TermsOfSize(n) ==
    IF n = 1
    THEN { Term_var(x) : x \in NameRefs }
    ELSE { Term_lam(NameIntro_new(l), b) : l \in Labels, b \in TermsOfSize(n - 1) }
         \cup { Term_neu(x, a) : x \in NameRefs, a \in TermArgs(n - 1) }
         \cup UNION { { Term_def(NameIntro_new(l), b1, b2)
                        : l \in Labels, b1 \in TermsOfSize(k),
                          b2 \in TermsOfSize(n - 1 - k) }
                      : k \in 1..(n - 2) }

\* the Terms of at most n nodes
TermsUpTo(n) == UNION { TermsOfSize(k) : k \in 1..n }

(***************************************************************************)
(* Spec: a surface term is converted with Term::from and the term it gives *)
(* is interpreted in the default environment (as assert_interpret does).   *)
(***************************************************************************)
Init ==
    /\ pc = "built"
    /\ builder \in Builders(MaxSize, MaxIndexedSize)
    /\ term = NoResult
    /\ env = Env_default
    /\ extended = NoResult
    /\ name = NoResult
    /\ callee = NoResult
    /\ vals = <<>>
    /\ result = NoResult

\* Term::from(builder)
From ==
    /\ pc = "built"
    /\ LET r == Term_from(builder)
       IN /\ result' = r
          /\ IF IsOk(r)
             THEN term' = r[2] /\ pc' = "resolved"
             ELSE term' = term /\ pc' = "panicked"
    /\ UNCHANGED <<builder, env, extended, name, callee, vals>>

\* interpret(&Env::default(), &term)
Interpret ==
    /\ pc = "resolved"
    /\ result' = interpret(env, term, MaxStack)
    /\ pc' = "done"
    /\ UNCHANGED <<builder, term, env, extended, name, callee, vals>>

Next == From \/ Interpret

Spec == Init /\ [][Next]_vars

(***************************************************************************)
(* Addressing the nodes of a term: a path is the sequence of child numbers *)
(* from the root (Lam: 1 is the body; Neu: i is arguments[i]; Def: 1 is    *)
(* the binding, 2 the body).  A TermBuilder and the Term resolved from it  *)
(* have the same paths.                                                    *)
(***************************************************************************)
RECURSIVE Paths(_)
Paths(t) ==
    {<<>>} \cup
    CASE t.tag = "Lam" -> { <<1>> \o p : p \in Paths(t.body) }
      [] t.tag = "Neu" ->
            UNION { { <<i>> \o p : p \in Paths(t.arguments[i]) }
                    : i \in 1..Len(t.arguments) }
      [] t.tag = "Def" ->
            { <<1>> \o p : p \in Paths(t.binding) }
            \cup { <<2>> \o p : p \in Paths(t.body) }

Child(t, i) ==
    CASE t.tag = "Lam" -> t.body
      [] t.tag = "Neu" -> t.arguments[i]
      [] t.tag = "Def" -> IF i = 1 THEN t.binding ELSE t.body

RECURSIVE NodeAt(_, _)
NodeAt(t, p) == IF p = <<>> THEN t ELSE NodeAt(Child(t, Head(p)), Tail(p))

\* the labels of the binders in scope at path p of the surface term tb,
\* nearest first: the enclosing lambda parameters and the enclosing binding
\* constructs whose body holds the path
RECURSIVE ScopeAt(_, _)
ScopeAt(tb, p) ==
    IF p = <<>>
    THEN <<>>
    ELSE ScopeAt(Child(tb, Head(p)), Tail(p))
         \o (IF tb.tag = "Lam" \/ (tb.tag = "Def" /\ Head(p) = 2)
             THEN <<tb.name>>
             ELSE <<>>)

\* the use occurrences of tb without / with an explicit index
PlainUses(tb) ==
    { p \in Paths(tb) : NodeAt(tb, p).tag = "Neu" /\ NodeAt(tb, p).applicant[2] = None }
IndexedUses(tb) ==
    { p \in Paths(tb) : NodeAt(tb, p).tag = "Neu" /\ NodeAt(tb, p).applicant[2] # None }

\* the positions (from 0) of label l in the scope
PositionsOf(scope, l) == { i \in 0..(Len(scope) - 1) : scope[i + 1] = l }

\* the number of binders of the scope nearer than the nearest one labelled l
NearerBinders(scope, l) ==
    Cardinality({ i \in 0..(Len(scope) - 1) :
                    \A j \in PositionsOf(scope, l) : i < j })

\* the core term rebuilt as a surface term whose use occurrences all carry
\* the index the core term gives them
RECURSIVE Rebuild(_)
Rebuild(t) ==
    CASE t.tag = "Lam" -> term_builder_lam(t.intro.label, Rebuild(t.body))
      [] t.tag = "Neu" ->
            term_builder_neu_with_index(t.applicant.label, t.applicant.index,
                [i \in 1..Len(t.arguments) |-> Rebuild(t.arguments[i])])
      [] t.tag = "Def" ->
            term_builder_def(t.intro.label, Rebuild(t.binding), Rebuild(t.body))

(***************************************************************************)
(* Claims about resolution followed by evaluation (Spec)                   *)
(***************************************************************************)
IsLookupFailure(r) ==
    IsErr(r) /\ r[2].kind \in {"UnboundReference", "NameMismatch"}

\* C1: evaluating, in the empty environment, a term the resolver accepted
\* from the empty context never fails with UnboundReference or NameMismatch
\* (a failed lookup anywhere in the evaluation is what interpret returns).
C1_ResolvedTermsLookUp ==
    pc = "done" => ~IsLookupFailure(result)

\* a resolved spine whose closure was applied, so that lookups were made in
\* the body of an applied closure at an index other than 0
C1_Witness ==
    /\ pc = "done"
    /\ IsOk(result)
    /\ builder = KBuilder
    /\ result[2] = interpret(Env_default, term.binding, MaxStack)[2]

\* C8: a use occurrence without an explicit index resolves to its label and
\* the number of binders in scope nearer than the nearest binder of that
\* label; when no binder in scope has the label, resolution fails with
\* UnboundName.
C8_PlainUseResolvesToNearest ==
    /\ pc = "resolved" =>
          \A p \in PlainUses(builder) :
             LET l == NodeAt(builder, p).applicant[1]
                 scope == ScopeAt(builder, p)
             IN /\ PositionsOf(scope, l) # {}
                /\ NodeAt(term, p).applicant
                      = NameRef_new(l, NearerBinders(scope, l))
    /\ (pc = "panicked" /\ result[2].kind = "UnboundName") =>
          \E p \in PlainUses(builder) :
             /\ NodeAt(builder, p).applicant[1] = result[2].label
             /\ ScopeAt(builder, p) = result[2].ctx
             /\ PositionsOf(ScopeAt(builder, p), result[2].label) = {}
    /\ (pc = "panicked" /\ IndexedUses(builder) = {}) =>
          result[2].kind = "UnboundName"
    /\ (pc = "built" /\ \E p \in PlainUses(builder) :
            PositionsOf(ScopeAt(builder, p), NodeAt(builder, p).applicant[1]) = {})
          => ~IsOk(from_term_builder_to_term(<<>>, builder))

\* an inner binder shadows an outer one of the same label, under a binder of
\* another label
C8_Witness ==
    /\ pc = "resolved"
    /\ \E p \in PlainUses(builder) :
          /\ Cardinality(PositionsOf(ScopeAt(builder, p),
                                     NodeAt(builder, p).applicant[1])) = 2
          /\ NodeAt(term, p).applicant.index = 1

\* C9: a use occurrence with the explicit index k resolves to exactly
\* {label, index: k} when the context has the label at position k, also
\* when a nearer binder has the same label, and fails with InvalidNameRef
\* when the context has no entry at k or another label there.
C9_ExplicitIndexIsChecked ==
    /\ pc = "resolved" =>
          \A p \in IndexedUses(builder) :
             LET l == NodeAt(builder, p).applicant[1]
                 k == NodeAt(builder, p).applicant[2][1]
                 scope == ScopeAt(builder, p)
             IN /\ k \in PositionsOf(scope, l)
                /\ NodeAt(term, p).applicant = NameRef_new(l, k)
    /\ (pc = "panicked" /\ result[2].kind = "InvalidNameRef") =>
          \E p \in IndexedUses(builder) :
             LET l == NodeAt(builder, p).applicant[1]
                 k == NodeAt(builder, p).applicant[2][1]
                 scope == ScopeAt(builder, p)
             IN /\ result[2].label = l
                /\ result[2].index = Some(k)
                /\ result[2].ctx = scope
                /\ k \notin PositionsOf(scope, l)
    /\ (pc = "built" /\ \E p \in IndexedUses(builder) :
            NodeAt(builder, p).applicant[2][1]
               \notin PositionsOf(ScopeAt(builder, p),
                                  NodeAt(builder, p).applicant[1]))
          => ~IsOk(from_term_builder_to_term(<<>>, builder))

\* an explicit index that skips a nearer binder of the same label
C9_Witness ==
    /\ pc = "resolved"
    /\ \E p \in IndexedUses(builder) :
          /\ NodeAt(term, p).applicant.index = 1
          /\ 0 \in PositionsOf(ScopeAt(builder, p), NodeAt(builder, p).applicant[1])

\* C10: a surface term without explicit indices that resolves to the core
\* term c, rebuilt from c with every index made explicit, resolves to c.
C10_ResolutionRoundTrip ==
    (pc = "resolved" /\ IndexedUses(builder) = {}) =>
       from_term_builder_to_term(<<>>, Rebuild(term)) = Ok(term)

\* a round trip through a term with an index other than 0 and a binding
C10_Witness ==
    /\ pc = "resolved"
    /\ IndexedUses(builder) = {}
    /\ Rebuild(term) # builder
    /\ \E p \in Paths(term) :
          NodeAt(term, p).tag = "Neu" /\ NodeAt(term, p).applicant.index = 1
    /\ \E p \in Paths(term) : NodeAt(term, p).tag = "Def"

\* what Term::from handed to its caller, read as a Result
Delivered == IF result[1] = "Panic" THEN Err(result[2]) ELSE result

\* the outcome of resolving the subterm of builder at path p in its scope
ResolvedAt(p) ==
    IF p = <<>>
    THEN Delivered
    ELSE from_term_builder_to_term(ScopeAt(builder, p), NodeAt(builder, p))

\* the positions of the arguments of the spine at path p that do not resolve
UnresolvedArguments(p) ==
    { i \in 1..Len(NodeAt(builder, p).arguments) : IsErr(ResolvedAt(p \o <<i>>)) }

\* C11: Term::from returns to its caller the resolved Term or a resolution
\* error (UnboundName or InvalidNameRef) carrying the label, the attempted
\* index and the context; it never ends otherwise.
C11_ResolutionReturnsOutcome ==
    pc \in {"resolved", "panicked"} =>
       \/ IsOk(result)
       \/ /\ IsErr(result)
          /\ result[2].kind \in {"UnboundName", "InvalidNameRef"}

\* C15: a spine's applicant is resolved before its arguments, and these left
\* to right in the spine's context: an unresolvable applicant's failure is
\* the spine's, whatever the arguments; otherwise the leftmost failing
\* argument's is; otherwise the spine resolves to the applicant's NameRef
\* over the resolved arguments.
C15_ApplicantResolvedFirst ==
    pc \in {"resolved", "panicked"} =>
       \A p \in Paths(builder) :
          NodeAt(builder, p).tag = "Neu" =>
             LET node == NodeAt(builder, p)
                 applicant == resolve_applicant(ScopeAt(builder, p), node.applicant)
                 failing == UnresolvedArguments(p)
             IN IF IsErr(applicant)
                THEN ResolvedAt(p) = applicant
                ELSE IF failing # {}
                     THEN LET k == CHOOSE i \in failing : \A j \in failing : i <= j
                          IN /\ ResolvedAt(p) = ResolvedAt(p \o <<k>>)
                             /\ ScopeAt(builder, p \o <<k>>) = ScopeAt(builder, p)
                     ELSE ResolvedAt(p) =
                             Ok(Term_neu(applicant[2],
                                         [i \in 1..Len(node.arguments) |->
                                             ResolvedAt(p \o <<i>>)[2]]))

\* Term::from of a spine whose applicant and whose argument are both
\* unresolvable, with different labels, ended with the applicant's failure
C15_Witness ==
    /\ pc = "panicked"
    /\ builder.tag = "Neu"
    /\ IsErr(resolve_applicant(<<>>, builder.applicant))
    /\ UnresolvedArguments(<<>>) # {}
    /\ \A i \in UnresolvedArguments(<<>>) :
          ResolvedAt(<<i>>)[2].label # builder.applicant[1]
    /\ result = Panic(resolve_applicant(<<>>, builder.applicant)[2])

(***************************************************************************)
(* SpecEval: a Term built directly with Term::lam, Term::neu, Term::var    *)
(* and Term::def (its NameRefs are whatever the caller wrote) is           *)
(* interpreted in an environment.                                          *)
(***************************************************************************)
\* λ[]x x#0
IdVal == Val_lam(Env_default, NameIntro_new("x"), Term_var(NameRef_new("x", 0)))
\* λ[]x λy x#1
KVal ==
    Val_lam(Env_default, NameIntro_new("x"),
            Term_lam(NameIntro_new("y"), Term_var(NameRef_new("x", 1))))

\* λ[]x (x#0 x#0)
WVal ==
    Val_lam(Env_default, NameIntro_new("x"),
            Term_neu(NameRef_new("x", 0), <<Term_var(NameRef_new("x", 0))>>))

EnvVals == {IdVal, KVal, WVal}

\* the environments of at most n bindings
EnvsUpTo(n) ==
    UNION { [1..k -> { <<NameIntro_new(l), v>> : l \in Labels, v \in EnvVals }]
            : k \in 0..n }

\* (def f = λx λy x#1 in (f#0 λz z#0)), the term of ulc test2 and fi_lang test
Test2Term ==
    Term_def(NameIntro_new("f"),
        Term_lam(NameIntro_new("x"),
            Term_lam(NameIntro_new("y"), Term_neu(NameRef_new("x", 1), <<>>))),
        Term_neu(NameRef_new("f", 0),
            <<Term_lam(NameIntro_new("z"), Term_neu(NameRef_new("z", 0), <<>>))>>))

\* λ[x = λ[f = λ[]x λy x#1]z z#0]y x#1, the value test2 expects
Test2Val ==
    Val_lam(
        <<<<NameIntro_new("x"),
            Val_lam(
                <<<<NameIntro_new("f"),
                    Val_lam(Env_default, NameIntro_new("x"),
                        Term_lam(NameIntro_new("y"),
                                 Term_neu(NameRef_new("x", 1), <<>>)))>>>>,
                NameIntro_new("z"),
                Term_neu(NameRef_new("z", 0), <<>>))>>>>,
        NameIntro_new("y"),
        Term_neu(NameRef_new("x", 1), <<>>))

InitEval ==
    /\ pc = "core"
    /\ builder = NoResult
    /\ \/ term \in TermsUpTo(MaxCoreSize) /\ env \in EnvsUpTo(MaxEnvLen)
       \/ term = Test2Term /\ env = Env_default
    /\ extended = NoResult
    /\ name = NoResult
    /\ callee = NoResult
    /\ vals = <<>>
    /\ result = NoResult

\* interpret(&env, &term)
InterpretCore ==
    /\ pc = "core"
    /\ result' = interpret(env, term, MaxStack)
    /\ pc' = "evaluated"
    /\ UNCHANGED <<builder, term, env, extended, name, callee, vals>>

NextEval == InterpretCore

SpecEval == InitEval /\ [][NextEval]_vars

(***************************************************************************)
(* Claims about interpret on hand-built terms (SpecEval)                   *)
(***************************************************************************)
\* what interpreting argument i of the spine returns, called from the
\* spine's own interpret
ArgumentOutcome(i) == interpret(env, term.arguments[i], MaxStack - 1)

FailingArguments ==
    { i \in 1..Len(term.arguments) : ~IsOk(ArgumentOutcome(i)) }

\* C3: a spine returns the failure of its leftmost failing argument,
\* whatever the later arguments and the applicant are; only when every
\* argument has a value is the applicant looked up (its failure returned)
\* and applied to the values.
C3_LeftmostArgumentFailure ==
    (pc = "evaluated" /\ term.tag = "Neu") =>
       IF FailingArguments # {}
       THEN result = ArgumentOutcome(
                CHOOSE k \in FailingArguments : \A j \in FailingArguments : k <= j)
       ELSE LET looked == Env_lookup(env, term.applicant)
            IN IF IsOk(looked)
               THEN result = apply(looked[2],
                                   [i \in 1..Len(term.arguments) |->
                                       ArgumentOutcome(i)[2]],
                                   MaxStack - 1)
               ELSE result = looked

\* two arguments and the applicant all fail, each with another failure
C3_Witness ==
    /\ pc = "evaluated"
    /\ term.tag = "Neu"
    /\ FailingArguments = {1, 2}
    /\ IsErr(Env_lookup(env, term.applicant))
    /\ ArgumentOutcome(1) # ArgumentOutcome(2)
    /\ ArgumentOutcome(1) # Env_lookup(env, term.applicant)
    /\ result = ArgumentOutcome(1)

\* C4: a binding term returns the failure of its binding, or else what its
\* body returns in the environment extended with (intro, value of the
\* binding); the binding is interpreted in the environment as given.  test2:
\* (def f = λx λy x#1 in (f#0 λz z#0)) gives
\* λ[x = λ[f = λ[]x λy x#1]z z#0]y x#1.
C4_BindingExtendsForBody ==
    /\ (pc = "evaluated" /\ term.tag = "Def") =>
          LET binding == interpret(env, term.binding, MaxStack - 1)
          IN IF IsOk(binding)
             THEN /\ result = interpret(Env_extend(env, term.intro, binding[2]),
                                        term.body, MaxStack - 1)
                  /\ term.binding.tag = "Lam" => binding[2].closure = env
                  /\ term.body.tag = "Lam" =>
                        result[2].closure = <<<<term.intro, binding[2]>>>> \o env
             ELSE result = binding
    /\ (pc = "evaluated" /\ term = Test2Term /\ env = Env_default) =>
          result = Ok(Test2Val)

C4_Witness ==
    /\ pc = "evaluated"
    /\ term = Test2Term
    /\ env = Env_default
    /\ result = Ok(Test2Val)

\* C5: an abstraction returns the closure of the environment, the intro and
\* the body as given, whatever the body is.
C5_AbstractionCaptures ==
    (pc = "evaluated" /\ term.tag = "Lam") =>
       /\ result = Ok([intro |-> term.intro, body |-> term.body, closure |-> env])
       /\ (term = Term_lam(NameIntro_new("x"), Term_var(NameRef_new("x", 0)))
           /\ env = Env_default) => result = Ok(IdVal)

\* an abstraction, in an environment with a binding, whose body fails its
\* lookup once the abstraction is applied
C5_Witness ==
    /\ pc = "evaluated"
    /\ term.tag = "Lam"
    /\ env # Env_default
    /\ IsOk(result)
    /\ IsLookupFailure(apply(result[2], <<IdVal>>, MaxStack))

\* no spine that interpret reaches in t has arguments: t is built of
\* abstractions (whose bodies interpret leaves alone), references and
\* bindings of these, so no closure is applied to an argument
RECURSIVE AppliesNothing(_)
AppliesNothing(t) ==
    CASE t.tag = "Lam" -> TRUE
      [] t.tag = "Neu" -> t.arguments = <<>>
      [] t.tag = "Def" -> AppliesNothing(t.binding) /\ AppliesNothing(t.body)

\* the nesting depth of such a term in calls: one call of interpret per
\* nested binding, and the call of apply a reference makes
RECURSIVE CallDepth(_)
CallDepth(t) ==
    CASE t.tag = "Lam" -> 1
      [] t.tag = "Neu" -> 2
      [] t.tag = "Def" ->
            LET b == CallDepth(t.binding)
                c == CallDepth(t.body)
            IN 1 + (IF b >= c THEN b ELSE c)

\* C12 as stated: every call interpret(env, term) returns a value or a
\* failure, its recursion depth bounded by the size of term (the stack
\* holds MaxStack nested calls, more than twice the nodes of any term here).
C12_EvaluationReturns ==
    pc = "evaluated" => (IsOk(result) \/ IsErr(result))

\* C12, amended: when no spine that interpret reaches in term has arguments,
\* interpret(env, term) returns a value or a failure, and a stack of as many
\* calls as term's nesting depth suffices for it.
C12_UnappliedEvaluationReturns ==
    (pc = "evaluated" /\ AppliesNothing(term)) =>
       /\ IsOk(result) \/ IsErr(result)
       /\ interpret(env, term, CallDepth(term)) = result

\* a binding of a reference, whose body is a reference to it, returned a
\* value; one call less on the stack would not have sufficed
C12_Witness ==
    /\ pc = "evaluated"
    /\ term.tag = "Def"
    /\ term.binding.tag = "Neu"
    /\ term.body.tag = "Neu"
    /\ AppliesNothing(term)
    /\ IsOk(result)
    /\ interpret(env, term, CallDepth(term) - 1) = StackOverflow

(***************************************************************************)
(* SpecEnv: lookup and extend on an environment; after an extension the    *)
(* caller still holds the environment it extended and looks names up in it.*)
(***************************************************************************)
LookupRefs == { NameRef_new(l, k) : l \in Labels, k \in 0..MaxLookupIndex }

InitEnv ==
    /\ pc = "env"
    /\ builder = NoResult
    /\ term = NoResult
    /\ env \in EnvsUpTo(MaxLookupEnvLen)
    /\ extended = NoResult
    /\ name = NoResult
    /\ callee = NoResult
    /\ vals = <<>>
    /\ result = NoResult

\* env.lookup(&x)
Lookup ==
    /\ pc = "env"
    /\ \E x \in LookupRefs :
          /\ name' = x
          /\ result' = Env_lookup(env, x)
    /\ pc' = "looked_up"
    /\ UNCHANGED <<builder, term, env, extended, callee, vals>>

\* env.extend(intro, val)
Extend ==
    /\ pc = "env"
    /\ \E l \in Labels, v \in EnvVals :
          /\ name' = NameIntro_new(l)
          /\ vals' = <<v>>
          /\ extended' = Env_extend(env, NameIntro_new(l), v)
    /\ pc' = "extended"
    /\ UNCHANGED <<builder, term, env, callee, result>>

\* env.lookup(&x), on the environment that was extended
LookupHeld ==
    /\ pc = "extended"
    /\ \E x \in LookupRefs :
          /\ name' = x
          /\ result' = Env_lookup(env, x)
    /\ pc' = "looked_up_held"
    /\ UNCHANGED <<builder, term, env, extended, callee, vals>>

\* env.iter(), collected
Iter ==
    /\ pc = "env"
    /\ result' = Env_iter(env)
    /\ pc' = "iterated"
    /\ UNCHANGED <<builder, term, env, extended, name, callee, vals>>

\* env.extend(intro, val).iter(), collected
IterExtended ==
    /\ pc = "extended"
    /\ result' = Env_iter(extended)
    /\ pc' = "iterated_extended"
    /\ UNCHANGED <<builder, term, env, extended, name, callee, vals>>

NextEnv == Lookup \/ Extend \/ LookupHeld \/ Iter \/ IterExtended

SpecEnv == InitEnv /\ [][NextEnv]_vars

\* C2: lookup fails with UnboundReference when the environment has fewer
\* than index + 1 entries, with NameMismatch when the entry at the index
\* has another label, and otherwise returns the value of that entry.
C2_LookupOutcomes ==
    pc \in {"looked_up", "looked_up_held"} =>
       /\ Len(env) < name.index + 1 =>
             IsErr(result) /\ result[2].kind = "UnboundReference"
       /\ (Len(env) >= name.index + 1
           /\ env[name.index + 1][1].label # name.label) =>
             IsErr(result) /\ result[2].kind = "NameMismatch"
       /\ (Len(env) >= name.index + 1
           /\ env[name.index + 1][1].label = name.label) =>
             result = Ok(env[name.index + 1][2])

\* index 5 in an environment of length 2
C2_Witness ==
    /\ pc = "looked_up"
    /\ name.index = 5
    /\ Len(env) = 2
    /\ result[2].kind = "UnboundReference"

\* the closure λ[e]l λy l#1 of an environment e
KOver(e, l) ==
    Val_lam(e, l, Term_lam(NameIntro_new("y"), Term_var(NameRef_new(l.label, 1))))

C7_ExtendedShape ==
    /\ pc \in {"extended", "looked_up_held"} =>
          /\ Len(extended) = Len(env) + 1
          /\ extended[1][2] = vals[1]
          /\ \A i \in 1..Len(env) : extended[i + 1] = env[i]
    /\ pc = "extended" =>
          /\ extended[1] = <<name, vals[1]>>
          /\ apply(KOver(env, name), vals, MaxStack)
                = Ok(Val_lam(extended, NameIntro_new("y"),
                             Term_var(NameRef_new(name.label, 1))))
          /\ apply(KOver(env, name), <<vals[1], IdVal>>, MaxStack) = Ok(vals[1])
          /\ apply(KOver(env, name), <<IdVal, vals[1]>>, MaxStack) = Ok(IdVal)
    /\ pc = "looked_up_held" =>
          LET shifted == Env_lookup(extended, NameRef_new(name.label, name.index + 1))
          IN /\ result = Env_lookup(env, name)
             /\ IsOk(result) => shifted = result
             /\ IsErr(result) => IsErr(shifted) /\ shifted[2].kind = result[2].kind

\* C7: extend returns the environment with (intro, val) at index 0 and
\* every entry of the environment it was given one index further; the
\* environment it was given is unchanged, a lookup in it after the
\* extension finds what the extended environment holds one index further,
\* and a closure of it binds each argument it is applied to over it.
C7_ExtendPrependsAndKeeps ==
    /\ [] C7_ExtendedShape
    /\ [][pc' \in {"extended", "looked_up_held"} => env' = env]_vars

C7_Witness ==
    /\ pc = "looked_up_held"
    /\ Len(env) = 2
    /\ name.index = 1
    /\ IsOk(result)
    /\ extended[1][2] # result[2]

\* C14 as stated: iter yields the outermost (oldest) binding first and the
\* most recently extended binding, the one at lookup index 0, last.
C14_IterOuterToCurrent ==
    pc = "iterated_extended" =>
       /\ Len(result) = Len(extended)
       /\ result[Len(result)] = <<name, vals[1]>>
       /\ \A i \in 1..Len(env) : result[i] = env[Len(env) + 1 - i]

\* what iter yielded is the bindings in lookup order: the item yielded at
\* position i (from 0) is the binding lookup finds at index i
YieldsLookupOrder(e) ==
    /\ Len(result) = Len(e)
    /\ \A i \in 0..(Len(e) - 1) :
          Env_lookup(e, NameRef_new(result[i + 1][1].label, i))
             = Ok(result[i + 1][2])

C14_IterShape ==
    /\ pc = "iterated" => YieldsLookupOrder(env)
    /\ pc = "iterated_extended" =>
          /\ YieldsLookupOrder(extended)
          /\ result[1] = <<name, vals[1]>>
          /\ SubSeq(result, 2, Len(result)) = Env_iter(env)

\* C14, amended: iter yields the bindings in lookup order, the most recently
\* extended binding (lookup index 0) first and the outermost (oldest) last,
\* and leaves the environment unchanged.
C14_IterNearestFirst ==
    /\ [] C14_IterShape
    /\ [][pc' \in {"iterated", "iterated_extended"} =>
             env' = env /\ extended' = extended]_vars

\* an environment of two bindings was extended with a third, different from
\* the oldest, and iterated
C14_Witness ==
    /\ pc = "iterated_extended"
    /\ Len(env) = 2
    /\ Len(result) = 3
    /\ result[1] # result[3]
    /\ result[3] = env[2]

(***************************************************************************)
(* SpecApply: a closure is applied to argument values, and what that gives *)
(* is applied to further argument values.                                  *)
(***************************************************************************)
\* the closures of the default environment over a body of at most 2 nodes
Callees ==
    { Val_lam(Env_default, NameIntro_new(l), b) : l \in Labels, b \in TermsUpTo(2) }

\* the argument vectors of at most n values
ArgValsUpTo(n) == UNION { [1..k -> EnvVals] : k \in 0..n }

InitApply ==
    /\ pc = "closure"
    /\ builder = NoResult
    /\ term = NoResult
    /\ env = Env_default
    /\ extended = NoResult
    /\ name = NoResult
    /\ callee \in Callees
    /\ vals = <<>>
    /\ result = NoResult

\* apply(&callee, arguments)
Apply ==
    /\ pc = "closure"
    /\ \E arguments \in ArgValsUpTo(MaxArgs) :
          /\ vals' = arguments
          /\ result' = apply(callee, arguments, MaxStack)
    /\ pc' = "applied"
    /\ UNCHANGED <<builder, term, env, extended, name, callee>>

\* apply(&value, arguments), value being what the last apply returned
ApplyMore ==
    /\ pc \in {"applied", "applied_more"}
    /\ IsOk(result)
    /\ \E arguments \in ArgValsUpTo(MaxArgs - Len(vals)) :
          /\ vals' = vals \o arguments
          /\ result' = apply(result[2], arguments, MaxStack)
    /\ pc' = "applied_more"
    /\ UNCHANGED <<builder, term, env, extended, name, callee>>

NextApply == Apply \/ ApplyMore

SpecApply == InitApply /\ [][NextApply]_vars

\* C6: applying a closure to arguments in several calls returns what one
\* call of apply with all of them returns, a failure met on the way being
\* what the one call returns whatever arguments follow; applied to no
\* argument a closure is returned as it is, and so is the value a spine
\* without arguments looks up.
C6_ApplyIsLeftFold ==
    pc \in {"applied", "applied_more"} =>
       /\ result = apply(callee, vals, MaxStack)
       /\ ~IsOk(result) =>
             \A more \in ArgValsUpTo(MaxArgs - Len(vals)) :
                apply(callee, vals \o more, MaxStack) = result
       /\ vals = <<>> => result = Ok(callee)
       /\ interpret(<<<<NameIntro_new("x"), callee>>>>,
                    Term_var(NameRef_new("x", 0)), MaxStack) = Ok(callee)

\* three arguments given in more than one call
C6_Witness ==
    /\ pc = "applied_more"
    /\ Len(vals) = 3
    /\ IsOk(result)
    /\ result[2] # callee
    /\ result[2] \notin EnvVals

====
